---- MODULE Spec2Model ----
(***************************************************************************)
(* A model of the versioned-asset cache and retrieval engine of wags-tails *)
(* (DrugBankData, GToPLigandData, RxNormData): get_latest under the three  *)
(* retrieval policies, the local cache scan, the remote-version strategies *)
(* and the download step.                                                  *)
(*                                                                         *)
(* A file name "<stem>_<version>.<ext>" is the record [stem, version, ext];*)
(* a version token is a sequence of one-character strings.  A data         *)
(* directory is a function from the file names it holds to their content:  *)
(* "ext" (placed from outside), "dl" (a complete download), "partial" (an  *)
(* incompletely written file).                                             *)
(***************************************************************************)
EXTENDS Integers, Sequences, FiniteSets, TLC

VARIABLES
    source,     \* the DataSource that was constructed (its _src_name)
    data_dir,   \* the source's data directory: file name -> content
    tmp,        \* the temporary download file: "absent" or "archive"
    UMLS_API_KEY,   \* whether the environment sets UMLS_API_KEY
    call        \* the last get_latest call: its arguments, inputs and outcome

vars == <<source, data_dir, tmp, UMLS_API_KEY, call>>

(***************************************************************************)
(* Bounds.                                                                 *)
(***************************************************************************)
MaxFiles == 2       \* files placed into a data directory from outside
MaxLen == 3         \* length of the version tokens of the scan specification
MaxScanFiles == 2   \* files in a directory of the scan specification

(***************************************************************************)
(* Characters, tokens and Python's str / int / list operations.            *)
(***************************************************************************)
Digits == {"0", "1", "2", "3", "4", "5", "6", "7", "8", "9"}

DigitVal(c) ==
    CASE c = "0" -> 0 [] c = "1" -> 1 [] c = "2" -> 2 [] c = "3" -> 3
      [] c = "4" -> 4 [] c = "5" -> 5 [] c = "6" -> 6 [] c = "7" -> 7
      [] c = "8" -> 8 [] c = "9" -> 9

\* str.split("."): the pieces between the dots, empty pieces included
RECURSIVE split(_)
split(s) ==
    IF \A i \in 1..Len(s) : s[i] # "."
    THEN <<s>>
    ELSE LET i == CHOOSE k \in 1..Len(s) :
                      s[k] = "." /\ \A j \in 1..(k - 1) : s[j] # "."
         IN  <<SubSeq(s, 1, i - 1)>> \o split(SubSeq(s, i + 1, Len(s)))

\* int(digits) raises ValueError on "" and on a non-digit
int_ok(d) == Len(d) > 0 /\ \A i \in 1..Len(d) : d[i] \in Digits

RECURSIVE int(_)
int(d) ==
    IF Len(d) = 0 THEN 0
    ELSE int(SubSeq(d, 1, Len(d) - 1)) * 10 + DigitVal(d[Len(d)])

\* Python's list < list on lists of ints: the first difference decides,
\* otherwise the shorter list is the smaller
list_lt(a, b) ==
    \E i \in 1..Len(b) :
        /\ i <= Len(a) + 1
        /\ \A j \in 1..(i - 1) : a[j] = b[j]
        /\ (i = Len(a) + 1 \/ a[i] < b[i])

\* except (A, B): an exception is caught by its class or a base class
IsSubclass(e, c) ==
    \/ e = c
    \/ (e = "JSONDecodeError" /\ c = "ValueError")

Caught(e, classes) == \E c \in classes : IsSubclass(e, c)

(***************************************************************************)
(* Files and directories.                                                  *)
(***************************************************************************)
File(stem, version, ext) == [stem |-> stem, version |-> version, ext |-> ext]

exists(dir, f) == f \in DOMAIN dir

\* the directory with file f holding content c (created or replaced)
Write(dir, f, c) == [g \in (DOMAIN dir) \cup {f} |-> IF g = f THEN c ELSE dir[g]]

EmptyDir == [g \in {} |-> "ext"]

\* Path.glob("<stem>_*.<ext>")
glob(dir, stem, ext) == {f \in DOMAIN dir : f.stem = stem /\ f.ext = ext}

NoFile == File("", <<>>, "")

\* one step of a call, as the caller of the collaborators sees it
Ev(op, f) == [op |-> op, file |-> f]

\* the outcome of a get_latest call: exc = "none" is a normal return
Out(exc, paths, version, events, dir, t) ==
    [exc |-> exc, paths |-> paths, version |-> version, events |-> events,
     dir |-> dir, tmp |-> t]

(***************************************************************************)
(* VersionCodec.parse: the version embedded in a file name.                *)
(***************************************************************************)
\* re.match of the version group of a source's file-name pattern
pattern_match(pattern, tok) ==
    CASE pattern = "[\\d\\.]+" ->
            Len(tok) > 0 /\ \A i \in 1..Len(tok) : tok[i] \in Digits \cup {"."}
      [] pattern = "\\d{4}\\.\\d" ->
            /\ Len(tok) = 6
            /\ \A i \in 1..4 : tok[i] \in Digits
            /\ tok[5] = "."
            /\ tok[6] \in Digits
      [] pattern = "\\d{4}\\.\\d+" ->
            /\ Len(tok) >= 6
            /\ \A i \in 1..4 : tok[i] \in Digits
            /\ tok[5] = "."
            /\ \A i \in 6..Len(tok) : tok[i] \in Digits

parse_file_version(f, pattern) ==
    IF pattern_match(pattern, f.version)
    THEN [exc |-> "none", version |-> f.version]
    ELSE [exc |-> "ParseError", version |-> <<>>]

(***************************************************************************)
(* Downloader.                                                             *)
(***************************************************************************)
Nets == {"ok", "http_error", "interrupted"}
Blobs == {"good", "no_member", "corrupt"}

\* generic archive post-processing: extract into the destination, discard
\* the archive
handle_zip(dir, outfile, blob) ==
    IF blob = "good"
    THEN [exc |-> "none", dir |-> Write(dir, outfile, "dl"), tmp |-> "absent"]
    ELSE [exc |-> "ProcessingError", dir |-> dir, tmp |-> "absent"]

\* (mutant) the member extracted under its own name, not the destination's
RxNorm_zip_handler_keeps_name(dir, outfile, blob) ==
    CASE blob = "no_member" ->
            [exc |-> "RemoteDataError", dir |-> dir, tmp |-> "archive"]
      [] blob = "corrupt" ->
            [exc |-> "BadZipFile",
             dir |-> Write(dir, File("RXNCONSO", <<>>, "RRF"), "partial"),
             tmp |-> "archive"]
      [] blob = "good" ->
            [exc |-> "none",
             dir |-> Write(dir, File("RXNCONSO", <<>>, "RRF"), "dl"),
             tmp |-> "absent"]

\* (mutant) a handler that clears the destination when the member is missing
RxNorm_zip_handler_unlinks(dir, outfile, blob) ==
    CASE blob = "no_member" ->
            [exc |-> "RemoteDataError",
             dir |-> [g \in (DOMAIN dir) \ {outfile} |-> dir[g]],
             tmp |-> "archive"]
      [] blob = "corrupt" ->
            [exc |-> "BadZipFile", dir |-> Write(dir, outfile, "partial"),
             tmp |-> "archive"]
      [] blob = "good" ->
            [exc |-> "none", dir |-> Write(dir, outfile, "dl"), tmp |-> "absent"]

\* RxNormData._zip_handler: extract the member rrf/RXNCONSO.RRF of the
\* downloaded archive under the destination's name, then remove the archive.
\* ZipFile.extract writes the member straight into the destination, so data
\* that fails to decompress (blob "corrupt") leaves what was written so far.
RxNorm_zip_handler(dir, outfile, blob) ==
    CASE blob = "no_member" ->
            [exc |-> "RemoteDataError", dir |-> dir, tmp |-> "archive"]
      [] blob = "corrupt" ->
            [exc |-> "BadZipFile", dir |-> Write(dir, outfile, "partial"),
             tmp |-> "archive"]
      [] blob = "good" ->
            [exc |-> "none", dir |-> Write(dir, outfile, "dl"), tmp |-> "absent"]

\* Downloader.fetch: receive into the temporary path; on full receipt hand
\* the temporary file to the post-processing step or, without one, move it
\* to the destination.  A failed transfer discards the temporary file.
download_http(dir, t, outfile, handler, net, blob) ==
    CASE net = "http_error" -> [exc |-> "HTTPError", dir |-> dir, tmp |-> t]
      [] net = "interrupted" ->
            [exc |-> "ConnectionError", dir |-> dir, tmp |-> "absent"]
      [] net = "ok" ->
            CASE handler = "none" ->
                    [exc |-> "none", dir |-> Write(dir, outfile, "dl"),
                     tmp |-> "absent"]
              [] handler = "handle_zip" -> handle_zip(dir, outfile, blob)
              [] handler = "_zip_handler" -> RxNorm_zip_handler(dir, outfile, blob)

(***************************************************************************)
(* DrugBankData.                                                           *)
(***************************************************************************)
\* a response of https://go.drugbank.com/releases.json
DrugBankResponse(kind, version) == [kind |-> kind, version |-> version]

\* the exception the body of the try block raises on a response, if any
DrugBank_try_body(resp) ==
    CASE resp.kind = "bad_json" -> "JSONDecodeError"      \* r.json()
      [] resp.kind = "empty_list" -> "IndexError"         \* r.json()[0]
      [] resp.kind = "no_version" -> "KeyError"           \* latest["version"]
      [] resp.kind = "no_url" -> "KeyError"               \* latest["url"]
      [] OTHER -> "none"

DrugBank_except == {"KeyError", "IndexError"}

DrugBank_get_latest_version(resp) ==
    IF resp.kind = "http_error"
    THEN [exc |-> "HTTPError", version |-> <<>>]          \* raise_for_status
    ELSE LET e == DrugBank_try_body(resp)
         IN  IF e = "none" THEN [exc |-> "none", version |-> resp.version]
             ELSE IF Caught(e, DrugBank_except)
             THEN [exc |-> "RemoteDataError", version |-> <<>>]
             ELSE [exc |-> e, version |-> <<>>]

\* [int(digits) for digits in version.split(".")]
formatted_version(version) ==
    [i \in 1..Len(split(version)) |-> int(split(version)[i])]

formatted_version_ok(version) ==
    \A i \in 1..Len(split(version)) : int_ok(split(version)[i])

\* what one pass of the scan loop raises on file f, if anything
DrugBank_scan_exc(f) ==
    IF parse_file_version(f, "[\\d\\.]+").exc # "none"
    THEN parse_file_version(f, "[\\d\\.]+").exc
    ELSE IF ~formatted_version_ok(f.version) THEN "ValueError"
    ELSE "none"

\* (mutant) the files sorted by their version strings, character by character
Ord(c) == IF c \in Digits THEN 48 + DigitVal(c) ELSE IF c = "." THEN 46 ELSE 97

DrugBank_latest_by_string(files) ==
    {f \in files : \A g \in files :
        ~list_lt([i \in 1..Len(f.version) |-> Ord(f.version[i])],
                 [i \in 1..Len(g.version) |-> Ord(g.version[i])])}

\* the candidates sorted(...)[-1] can be: the sort is stable and glob's
\* order is the file system's, so any file with a greatest key can be last
DrugBank_latest(files) ==
    {f \in files : \A g \in files :
        ~list_lt(formatted_version(f.version), formatted_version(g.version))}

\* (mutant) the scan without its test for an empty list: files[-1] raises
DrugBank_get_latest_local_file_unchecked(dir) ==
    LET files == glob(dir, "drugbank", "csv")
        bad == {f \in files : DrugBank_scan_exc(f) # "none"}
    IN  IF bad # {}
        THEN {[exc |-> DrugBank_scan_exc(f), path |-> NoFile, version |-> <<>>] :
                 f \in bad}
        ELSE IF files = {}
        THEN {[exc |-> "IndexError", path |-> NoFile, version |-> <<>>]}
        ELSE {[exc |-> "none", path |-> f, version |-> f.version] :
                 f \in DrugBank_latest(files)}

\* the set of results [exc, path, version] the scan can end with
DrugBank_get_latest_local_file(dir) ==
    LET files == glob(dir, "drugbank", "csv")
        bad == {f \in files : DrugBank_scan_exc(f) # "none"}
    IN  IF bad # {}
        THEN {[exc |-> DrugBank_scan_exc(f), path |-> NoFile, version |-> <<>>] :
                 f \in bad}
        ELSE IF files = {}
        THEN {[exc |-> "FileNotFoundError", path |-> NoFile, version |-> <<>>]}
        ELSE {[exc |-> "none", path |-> f, version |-> f.version] :
                 f \in DrugBank_latest(files)}

DrugBank_download_data(dir, t, outfile, net, blob) ==
    download_http(dir, t, outfile, "handle_zip", net, blob)

\* (mutant) the test of the two flags left out
DrugBank_conflict_dropped(from_local, force_refresh) == FALSE

\* if force_refresh and from_local: raise ValueError
DrugBank_conflict(from_local, force_refresh) == force_refresh /\ from_local

\* if from_local: return the latest local file
DrugBank_local_only(from_local) == from_local

\* (mutant) the flag tested the wrong way round
DrugBank_cache_hit_inverted(dir, force_refresh, latest_file) ==
    force_refresh /\ exists(dir, latest_file)

\* (mutant) a cached file of a greater version counts as a cache hit
DrugBank_cache_hit_newer(dir, force_refresh, latest_file) ==
    (~force_refresh) /\ \E g \in glob(dir, "drugbank", "csv") :
        \/ g = latest_file
        \/ /\ DrugBank_scan_exc(g) = "none" /\ DrugBank_scan_exc(latest_file) = "none"
           /\ list_lt(formatted_version(latest_file.version),
                      formatted_version(g.version))

\* (mutant) the cached file returned whatever force_refresh says
DrugBank_cache_hit_ignores_flag(dir, force_refresh, latest_file) ==
    exists(dir, latest_file)

\* if (not force_refresh) and latest_file.exists(): return the cached file
DrugBank_cache_hit(dir, force_refresh, latest_file) ==
    (~force_refresh) /\ exists(dir, latest_file)

\* the outcomes of DrugBankData.get_latest; net is the sequence of transfer
\* outcomes of the downloads the call starts, in order
DrugBank_get_latest(dir, t, from_local, force_refresh, resp, net, blob) ==
    IF DrugBank_conflict(from_local, force_refresh)
    THEN {Out("ValueError", <<>>, <<>>, <<>>, dir, t)}
    ELSE IF DrugBank_local_only(from_local)
    THEN {Out(r.exc, IF r.exc = "none" THEN <<r.path>> ELSE <<>>, r.version,
              <<Ev("scan", File("drugbank", <<"*">>, "csv"))>>, dir, t) :
             r \in DrugBank_get_latest_local_file(dir)}
    ELSE LET lv == DrugBank_get_latest_version(resp)
             latest_file == File("drugbank", lv.version, "csv")
         IN  IF lv.exc # "none"
             THEN {Out(lv.exc, <<>>, <<>>, <<Ev("remote", NoFile)>>, dir, t)}
             ELSE IF DrugBank_cache_hit(dir, force_refresh, latest_file)
             THEN {Out("none", <<latest_file>>, lv.version,
                       <<Ev("remote", NoFile)>>, dir, t)}
             ELSE LET d == DrugBank_download_data(dir, t, latest_file,
                                                  net[1], blob)
                  IN  {Out(d.exc,
                           IF d.exc = "none" THEN <<latest_file>> ELSE <<>>,
                           IF d.exc = "none" THEN lv.version ELSE <<>>,
                           <<Ev("remote", NoFile), Ev("download", latest_file)>>,
                           d.dir, d.tmp)}

(***************************************************************************)
(* DataSource: what the sources inherit.                                   *)
(***************************************************************************)
\* LocalCacheScanner.latest: the candidates are the files matching the glob
\* whose version parses (others are skipped); the result is a greatest one
DataSource_candidates(dir, stem, ext) ==
    {f \in glob(dir, stem, ext) :
        /\ parse_file_version(f, "[\\d\\.]+").exc = "none"
        /\ formatted_version_ok(f.version)}

DataSource_latest(files) ==
    {f \in files : \A g \in files :
        ~list_lt(formatted_version(f.version), formatted_version(g.version))}

DataSource_get_latest_local_file(dir, stem, ext) ==
    LET files == DataSource_candidates(dir, stem, ext)
    IN  IF files = {}
        THEN {[exc |-> "FileNotFoundError", path |-> NoFile]}
        ELSE {[exc |-> "none", path |-> f] : f \in DataSource_latest(files)}

DataSource_http_download(dir, t, outfile, net) ==
    download_http(dir, t, outfile, "none", net, "good")

(***************************************************************************)
(* GToPLigandData.                                                         *)
(***************************************************************************)
\* a line of the home page: marker says whether it contains "Current Release
\* Version", text is what stands where the pattern expects the version
Line(marker, text) == [marker |-> marker, text |-> text]

GToPResponse(kind, page) == [kind |-> kind, page |-> page]

\* for line in r_text: ... return matches[0]; else: raise RemoteDataError
GToP_get_latest_version(resp) ==
    IF resp.kind = "http_error"
    THEN [exc |-> "HTTPError", version |-> <<>>]
    ELSE LET page == resp.page
             hits == {i \in 1..Len(page) :
                         /\ page[i].marker
                         /\ pattern_match("\\d{4}\\.\\d", page[i].text)}
         IN  IF hits = {}
             THEN [exc |-> "RemoteDataError", version |-> <<>>]
             ELSE [exc |-> "none",
                   version |-> page[CHOOSE i \in hits :
                                        \A j \in hits : i <= j].text]

GToP_conflict(from_local, force_refresh) == force_refresh /\ from_local

\* (mutant) the local-only branch never taken
GToP_local_only_off(from_local) == FALSE

\* if from_local: return the latest local files
GToP_local_only(from_local) == from_local

\* (mutant) one member present counts as a cache hit
GToP_cache_hit_any(dir, force_refresh, ligands_path, ligand_id_mapping_path) ==
    (~force_refresh) /\ (exists(dir, ligands_path)
                         \/ exists(dir, ligand_id_mapping_path))

\* if not force_refresh: if ligands_path.exists() and
\* ligand_id_mapping_path.exists(): return the cached files
\* (mutant) the cached group never returned
GToP_cache_hit_never(dir, force_refresh, ligands_path, ligand_id_mapping_path) ==
    FALSE

GToP_cache_hit(dir, force_refresh, ligands_path, ligand_id_mapping_path) ==
    (~force_refresh) /\ exists(dir, ligands_path)
                     /\ exists(dir, ligand_id_mapping_path)

\* (mutant) the ligands transfer started a second time after it failed
GToP_download_files_retries(dir, t, ligands_path, ligand_id_mapping_path, net) ==
    LET d1 == DataSource_http_download(dir, t, ligands_path, net[1])
        d2 == DataSource_http_download(d1.dir, d1.tmp, ligand_id_mapping_path,
                                       net[2])
    IN  IF d1.exc # "none"
        THEN [exc |-> d1.exc, dir |-> d1.dir, tmp |-> d1.tmp,
              events |-> <<Ev("download", ligands_path),
                           Ev("download", ligands_path)>>]
        ELSE [exc |-> d2.exc, dir |-> d2.dir, tmp |-> d2.tmp,
              events |-> <<Ev("download", ligands_path),
                           Ev("download", ligand_id_mapping_path)>>]

\* GToPLigandData._download_files: the two members in turn; the second is
\* not started when the first fails
GToP_download_files(dir, t, ligands_path, ligand_id_mapping_path, net) ==
    LET d1 == DataSource_http_download(dir, t, ligands_path, net[1])
        d2 == DataSource_http_download(d1.dir, d1.tmp, ligand_id_mapping_path,
                                       net[2])
    IN  IF d1.exc # "none"
        THEN [exc |-> d1.exc, dir |-> d1.dir, tmp |-> d1.tmp,
              events |-> <<Ev("download", ligands_path)>>]
        ELSE [exc |-> d2.exc, dir |-> d2.dir, tmp |-> d2.tmp,
              events |-> <<Ev("download", ligands_path),
                           Ev("download", ligand_id_mapping_path)>>]

GToP_get_latest(dir, t, from_local, force_refresh, resp, net) ==
    IF GToP_conflict(from_local, force_refresh)
    THEN {Out("ValueError", <<>>, <<>>, <<>>, dir, t)}
    ELSE IF GToP_local_only(from_local)
    THEN LET scan1 == Ev("scan", File("gtop_ligands", <<"*">>, "tsv"))
             scan2 == Ev("scan", File("gtop_ligand_id_mapping", <<"*">>, "tsv"))
         IN  UNION {
               IF l.exc # "none"
               THEN {Out(l.exc, <<>>, <<>>, <<scan1>>, dir, t)}
               ELSE UNION {
                 IF m.exc # "none"
                 THEN {Out(m.exc, <<>>, <<>>, <<scan1, scan2>>, dir, t)}
                 ELSE LET v == parse_file_version(l.path, "\\d{4}\\.\\d+")
                      IN  IF v.exc # "none"
                          THEN {Out(v.exc, <<>>, <<>>, <<scan1, scan2>>, dir, t)}
                          ELSE {Out("none", <<l.path, m.path>>, v.version,
                                    <<scan1, scan2>>, dir, t)} :
                 m \in DataSource_get_latest_local_file(
                           dir, "gtop_ligand_id_mapping", "tsv")} :
               l \in DataSource_get_latest_local_file(dir, "gtop_ligands", "tsv")}
    ELSE LET lv == GToP_get_latest_version(resp)
             ligands_path == File("gtop_ligands", lv.version, "tsv")
             ligand_id_mapping_path ==
                 File("gtop_ligand_id_mapping", lv.version, "tsv")
             file_paths == <<ligands_path, ligand_id_mapping_path>>
         IN  IF lv.exc # "none"
             THEN {Out(lv.exc, <<>>, <<>>, <<Ev("remote", NoFile)>>, dir, t)}
             ELSE IF GToP_cache_hit(dir, force_refresh, ligands_path,
                                    ligand_id_mapping_path)
             THEN {Out("none", file_paths, lv.version,
                       <<Ev("remote", NoFile)>>, dir, t)}
             ELSE LET d == GToP_download_files(dir, t, ligands_path,
                                               ligand_id_mapping_path, net)
                  IN  {Out(d.exc,
                           IF d.exc = "none" THEN file_paths ELSE <<>>,
                           IF d.exc = "none" THEN lv.version ELSE <<>>,
                           <<Ev("remote", NoFile)>> \o d.events, d.dir, d.tmp)}

(***************************************************************************)
(* RxNormData.                                                             *)
(***************************************************************************)
\* a response of https://rxnav.nlm.nih.gov/REST/version.json; raw is the
\* "version" value, day-month-year as "%d-%b-%Y" reads it
RxNormResponse(kind, raw) == [kind |-> kind, raw |-> raw]

RawDate(day, month, year) == [day |-> day, month |-> month, year |-> year]

\* %b read, %m written
MonthNum(b) ==
    CASE b = "Jan" -> <<"0", "1">> [] b = "Feb" -> <<"0", "2">>
      [] b = "Mar" -> <<"0", "3">> [] b = "Apr" -> <<"0", "4">>
      [] b = "May" -> <<"0", "5">> [] b = "Jun" -> <<"0", "6">>
      [] b = "Jul" -> <<"0", "7">> [] b = "Aug" -> <<"0", "8">>
      [] b = "Sep" -> <<"0", "9">> [] b = "Oct" -> <<"1", "0">>
      [] b = "Nov" -> <<"1", "1">> [] b = "Dec" -> <<"1", "2">>

\* strptime(raw, "%d-%b-%Y").strftime(DATE_VERSION_PATTERN), the pattern
\* being "%Y%m%d": the day is written with two digits
DATE_VERSION(raw) ==
    raw.year \o MonthNum(raw.month)
             \o (IF Len(raw.day) = 1 THEN <<"0">> \o raw.day ELSE raw.day)

RxNorm_try_body(resp) ==
    CASE resp.kind = "bad_json" -> "JSONDecodeError"      \* r.json()
      [] resp.kind = "no_version" -> "KeyError"           \* r.json()["version"]
      [] resp.kind = "bad_date" -> "ValueError"           \* strptime
      [] OTHER -> "none"

RxNorm_except == {"ValueError", "KeyError"}

RxNorm_get_latest_version(resp) ==
    IF resp.kind = "http_error"
    THEN [exc |-> "HTTPError", version |-> <<>>]
    ELSE LET e == RxNorm_try_body(resp)
         IN  IF e = "none"
             THEN [exc |-> "none", version |-> DATE_VERSION(resp.raw)]
             ELSE IF Caught(e, RxNorm_except)
             THEN [exc |-> "RemoteDataError", version |-> <<>>]
             ELSE [exc |-> e, version |-> <<>>]

\* (mutant) the download issued without looking at the API key
RxNorm_download_data_unkeyed(dir, t, file_path, api_key, net, blob) ==
    LET d == download_http(dir, t, file_path, "_zip_handler", net, blob)
    IN  [exc |-> d.exc, dir |-> d.dir, tmp |-> d.tmp,
         events |-> <<Ev("download", file_path)>>]

\* RxNormData._download_data: no download without the API key
RxNorm_download_data(dir, t, file_path, api_key, net, blob) ==
    IF ~api_key
    THEN [exc |-> "RemoteDataError", dir |-> dir, tmp |-> t, events |-> <<>>]
    ELSE LET d == download_http(dir, t, file_path, "_zip_handler", net, blob)
         IN  [exc |-> d.exc, dir |-> d.dir, tmp |-> d.tmp,
              events |-> <<Ev("download", file_path)>>]

\* DataSource.get_latest, which RxNormData inherits
DataSource_get_latest(dir, t, from_local, force_refresh, resp, api_key, net, blob) ==
    IF force_refresh /\ from_local
    THEN {Out("ValueError", <<>>, <<>>, <<>>, dir, t)}
    ELSE IF from_local
    THEN {Out(r.exc, IF r.exc = "none" THEN <<r.path>> ELSE <<>>,
              r.path.version, <<Ev("scan", File("rxnorm", <<"*">>, "RRF"))>>,
              dir, t) :
             r \in DataSource_get_latest_local_file(dir, "rxnorm", "RRF")}
    ELSE LET lv == RxNorm_get_latest_version(resp)
             latest_file == File("rxnorm", lv.version, "RRF")
         IN  IF lv.exc # "none"
             THEN {Out(lv.exc, <<>>, <<>>, <<Ev("remote", NoFile)>>, dir, t)}
             ELSE IF (~force_refresh) /\ exists(dir, latest_file)
             THEN {Out("none", <<latest_file>>, lv.version,
                       <<Ev("remote", NoFile)>>, dir, t)}
             ELSE LET d == RxNorm_download_data(dir, t, latest_file, api_key,
                                                net[1], blob)
                  IN  {Out(d.exc,
                           IF d.exc = "none" THEN <<latest_file>> ELSE <<>>,
                           IF d.exc = "none" THEN lv.version ELSE <<>>,
                           <<Ev("remote", NoFile)>> \o d.events, d.dir, d.tmp)}

(***************************************************************************)
(* The inputs: remote responses, transfer outcomes, files placed in the    *)
(* data directory from outside.                                            *)
(***************************************************************************)
Sources == {"drugbank", "guidetopharmacology", "rxnorm"}

DrugBankVersions == {<<"2">>, <<"1", ".", "2">>, <<"1", "a">>}

DrugBankResponses ==
    {DrugBankResponse("ok", v) : v \in DrugBankVersions}
    \cup {DrugBankResponse(k, <<>>) :
             k \in {"http_error", "bad_json", "empty_list", "no_version",
                    "no_url"}}

DrugBankLocal ==
    {File("drugbank", v, "csv") :
        v \in {<<"2">>, <<"1", "2">>, <<"1", ".", "2">>, <<"1", "a">>}}
    \cup {File("notes", <<>>, "txt")}

GToPV1 == <<"2", "0", "2", "3", ".", "1">>
GToPV2 == <<"2", "0", "2", "3", ".", "2">>
GToPV10 == <<"2", "0", "2", "3", ".", "1", "0">>

GToPResponses ==
    {GToPResponse("ok", <<Line(FALSE, <<>>), Line(TRUE, v)>>) :
        v \in {GToPV1, GToPV2}}
    \cup {GToPResponse("ok", <<Line(TRUE, GToPV10), Line(TRUE, GToPV1)>>),
          GToPResponse("ok", <<Line(TRUE, GToPV10)>>),
          GToPResponse("ok", <<Line(FALSE, <<>>)>>),
          GToPResponse("http_error", <<>>)}

GToPLocal ==
    {File(stem, v, "tsv") :
        stem \in {"gtop_ligands", "gtop_ligand_id_mapping"},
        v \in {GToPV1, GToPV2}}

RxNormRaws ==
    {RawDate(<<"4">>, "Mar", <<"2", "0", "2", "4">>),
     RawDate(<<"0", "1">>, "Apr", <<"2", "0", "2", "4">>)}

RxNormResponses ==
    {RxNormResponse("ok", raw) : raw \in RxNormRaws}
    \cup {RxNormResponse(k, RawDate(<<>>, "", <<>>)) :
             k \in {"http_error", "bad_json", "no_version", "bad_date"}}

RxNormLocal ==
    {File("rxnorm", DATE_VERSION(raw), "RRF") : raw \in RxNormRaws}

Local(src) ==
    CASE src = "drugbank" -> DrugBankLocal
      [] src = "guidetopharmacology" -> GToPLocal
      [] src = "rxnorm" -> RxNormLocal

\* the version tokens of the scan specification
ScanChars == <<"1", "2", ".">>

\* the n-th token over ScanChars, shorter tokens first
RECURSIVE Token(_)
Token(n) ==
    IF n = 0 THEN <<>>
    ELSE Token((n - 1) \div Len(ScanChars))
             \o <<ScanChars[((n - 1) % Len(ScanChars)) + 1]>>

RECURSIVE Power(_, _)
Power(b, e) == IF e = 0 THEN 1 ELSE b * Power(b, e - 1)

\* the number of tokens of 1..MaxLen characters
NTokens ==
    (Power(Len(ScanChars), MaxLen + 1) - Len(ScanChars)) \div (Len(ScanChars) - 1)

\* idx lists k token numbers in increasing order
Increasing(idx, k) == \A i \in 1..(k - 1) : idx[i] < idx[i + 1]

(***************************************************************************)
(* The state machine.                                                      *)
(***************************************************************************)
NoResp == [kind |-> "unused"]

\* what a call remembers of the call before it: whether that call returned
\* from the remote path (from_local unset), what it returned and whether it
\* downloaded; nothing is remembered across a change made from outside
NoPrev ==
    [ok |-> FALSE, force_refresh |-> FALSE, downloaded |-> FALSE,
     paths |-> <<>>, version |-> <<>>]

Idle ==
    [state |-> "Idle", from_local |-> FALSE, force_refresh |-> FALSE,
     resp |-> NoResp, net |-> <<>>, blob |-> "unused", exc |-> "none",
     paths |-> <<>>, version |-> <<>>, events |-> <<>>,
     before |-> EmptyDir, tmp_before |-> "absent", prev |-> NoPrev]

Ops(events, op) == {i \in 1..Len(events) : events[i].op = op}

\* the record of a call that ended with outcome o; an input the call did
\* not read is recorded as unused
Called(from_local, force_refresh, resp, net, blob, o) ==
    LET nd == Cardinality(Ops(o.events, "download"))
    IN  [state |-> IF o.exc = "none" THEN "Done" ELSE "Failed",
         from_local |-> from_local, force_refresh |-> force_refresh,
         resp |-> IF Ops(o.events, "remote") # {} THEN resp ELSE NoResp,
         net |-> SubSeq(net, 1, nd),
         blob |-> IF nd > 0 /\ net[nd] = "ok" THEN blob ELSE "unused",
         exc |-> o.exc, paths |-> o.paths, version |-> o.version,
         events |-> o.events, before |-> data_dir, tmp_before |-> tmp,
         prev |-> IF call.state = "Done" /\ ~call.from_local
                  THEN [ok |-> TRUE, force_refresh |-> call.force_refresh,
                        downloaded |-> Ops(call.events, "download") # {},
                        paths |-> call.paths, version |-> call.version]
                  ELSE NoPrev]

Init ==
    /\ source \in Sources
    /\ data_dir = EmptyDir
    /\ tmp = "absent"
    /\ UMLS_API_KEY \in (IF source = "rxnorm" THEN BOOLEAN ELSE {FALSE})
    /\ call = Idle

\* a file appears in the data directory from outside the program; the
\* record of the last call is dropped, so that a call record always
\* describes the directory as that call left it
PlaceFile(f) ==
    /\ f \in Local(source)
    /\ ~exists(data_dir, f)
    /\ Cardinality({g \in DOMAIN data_dir : data_dir[g] = "ext"}) < MaxFiles
    /\ data_dir' = Write(data_dir, f, "ext")
    /\ call' = Idle
    /\ UNCHANGED <<source, tmp, UMLS_API_KEY>>

Finish(from_local, force_refresh, resp, net, blob, o) ==
    /\ data_dir' = o.dir
    /\ tmp' = o.tmp
    /\ call' = Called(from_local, force_refresh, resp, net, blob, o)
    /\ UNCHANGED <<source, UMLS_API_KEY>>

\* the transfer outcomes of up to n downloads started one after another:
\* a download that follows a failed one is never started, so its outcome
\* is not drawn
Transfers(n) ==
    {s \in [1..n -> Nets \cup {"unused"}] :
        \A i \in 1..n : (s[i] = "unused") <=> (\E j \in 1..(i - 1) : s[j] # "ok")}

\* what the outside world answers to one call: the response to the version
\* request, the transfer outcomes and the archive received; an archive is
\* received only by a transfer that succeeded.  A from_local call asks the
\* outside world nothing, so one answer stands for all of them.
CallInputs(from_local, responses, n, blobs) ==
    LET all == {x \in [resp : responses, net : Transfers(n),
                       blob : blobs \cup {"unused"}] :
                   (x.blob = "unused") <=> (blobs = {} \/ x.net[n] # "ok")}
    IN  IF from_local
        THEN {CHOOSE x \in all : x.resp.kind = "http_error" /\ x.net[1] = "ok"}
        ELSE all

DrugBankGetLatest(from_local, force_refresh) ==
    /\ source = "drugbank"
    /\ \E x \in CallInputs(from_local, DrugBankResponses, 1, Blobs) :
          \E o \in DrugBank_get_latest(data_dir, tmp, from_local,
                                       force_refresh, x.resp, x.net, x.blob) :
              Finish(from_local, force_refresh, x.resp, x.net, x.blob, o)

GToPGetLatest(from_local, force_refresh) ==
    /\ source = "guidetopharmacology"
    /\ \E x \in CallInputs(from_local, GToPResponses, 2, {}) :
          \E o \in GToP_get_latest(data_dir, tmp, from_local, force_refresh,
                                   x.resp, x.net) :
              Finish(from_local, force_refresh, x.resp, x.net, x.blob, o)

RxNormGetLatest(from_local, force_refresh) ==
    /\ source = "rxnorm"
    /\ \E x \in CallInputs(from_local, RxNormResponses, 1, Blobs) :
          \E o \in DataSource_get_latest(data_dir, tmp, from_local,
                                         force_refresh, x.resp, UMLS_API_KEY,
                                         x.net, x.blob) :
              Finish(from_local, force_refresh, x.resp, x.net, x.blob, o)

Next ==
    \/ \E f \in Local(source) : PlaceFile(f)
    \/ \E from_local, force_refresh \in BOOLEAN :
          DrugBankGetLatest(from_local, force_refresh)
    \/ \E from_local, force_refresh \in BOOLEAN :
          GToPGetLatest(from_local, force_refresh)
    \/ \E from_local, force_refresh \in BOOLEAN :
          RxNormGetLatest(from_local, force_refresh)

Spec == Init /\ [][Next]_vars

\* The scan specification: DrugBank's local scan applied to every directory
\* of up to MaxScanFiles files drugbank_<token>.csv.
InitScan ==
    /\ source = "drugbank"
    /\ \E k \in 0..MaxScanFiles : \E idx \in [1..k -> 1..NTokens] :
          /\ Increasing(idx, k)
          /\ data_dir = [f \in {File("drugbank", Token(idx[i]), "csv") :
                                  i \in 1..k} |-> "ext"]
    /\ tmp = "absent"
    /\ UMLS_API_KEY = FALSE
    /\ call = Idle

\* get_latest(from_local=True) with the network down
ScanCall ==
    /\ call = Idle
    /\ \E o \in DrugBank_get_latest(data_dir, tmp, TRUE, FALSE,
                                   DrugBankResponse("http_error", <<>>),
                                   <<"http_error">>, "good") :
          Finish(TRUE, FALSE, DrugBankResponse("http_error", <<>>),
                 <<"http_error">>, "good", o)

NextScan == ScanCall

SpecScan == InitScan /\ [][NextScan]_vars

(***************************************************************************)
(* Properties.                                                             *)
(***************************************************************************)
Remotes == Ops(call.events, "remote")
Downloads == Ops(call.events, "download")

FromLocalCall == call.state # "Idle" /\ call.from_local /\ ~call.force_refresh
DefaultCall == call.state # "Idle" /\ ~call.from_local /\ ~call.force_refresh

\* the version the source's remote-version strategy resolves from the
\* response the call read
Resolved ==
    CASE source = "drugbank" -> DrugBank_get_latest_version(call.resp)
      [] source = "guidetopharmacology" -> GToP_get_latest_version(call.resp)
      [] source = "rxnorm" -> RxNorm_get_latest_version(call.resp)

Ligands(v) == File("gtop_ligands", v, "tsv")
Mapping(v) == File("gtop_ligand_id_mapping", v, "tsv")

\* C1: get_latest(from_local=True, force_refresh=True) fails with ValueError
\* in every cache and remote state, before any scan, remote-version lookup
\* or download, and leaves the data directory as it was.
C1_ConflictingFlagsFail ==
    (call.state # "Idle" /\ call.from_local /\ call.force_refresh) =>
        /\ call.state = "Failed"
        /\ call.exc = "ValueError"
        /\ call.events = <<>>
        /\ call.paths = <<>>
        /\ data_dir = call.before
        /\ tmp = call.tmp_before

C1_Witness ==
    /\ source = "drugbank"
    /\ call.from_local /\ call.force_refresh
    /\ call.exc = "ValueError"
    /\ DOMAIN call.before # {}

\* C2: under from_local=True, force_refresh=False, get_latest of DrugBank
\* and of Guide to Pharmacology only scans the data directory: the
\* remote-version strategy is not invoked and no download is started.
C2_FromLocalNoNetwork ==
    (source \in {"drugbank", "guidetopharmacology"} /\ FromLocalCall) =>
        /\ Remotes = {}
        /\ Downloads = {}
        /\ call.events # <<>>
        /\ \A i \in 1..Len(call.events) : call.events[i].op = "scan"
        /\ data_dir = call.before
        /\ tmp = call.tmp_before

C2_Witness ==
    /\ source = "guidetopharmacology"
    /\ FromLocalCall
    /\ call.state = "Done"
    /\ Len(call.events) = 2

\* C3: DrugBank's get_latest(from_local=True) on a data directory with no
\* file matching drugbank_*.csv fails with FileNotFoundError: it returns no
\* path and starts no remote-version lookup and no download.
C3_NoLocalFileNotFound ==
    (/\ source = "drugbank"
     /\ FromLocalCall
     /\ glob(call.before, "drugbank", "csv") = {}) =>
        /\ call.state = "Failed"
        /\ call.exc = "FileNotFoundError"
        /\ call.paths = <<>>
        /\ Remotes = {}
        /\ Downloads = {}

C3_Witness ==
    /\ source = "drugbank"
    /\ FromLocalCall
    /\ call.exc = "FileNotFoundError"
    /\ File("notes", <<>>, "txt") \in DOMAIN call.before

\* a dotted-numeric version: digits and dots, every component non-empty
DottedNumeric(v) ==
    /\ Len(v) > 0
    /\ \A i \in 1..Len(v) : v[i] \in Digits \cup {"."}
    /\ v[1] # "." /\ v[Len(v)] # "."
    /\ \A i \in 1..(Len(v) - 1) : ~(v[i] = "." /\ v[i + 1] = ".")

\* C4: on a non-empty directory of files drugbank_<version>.csv with
\* dotted-numeric versions, DrugBank's get_latest(from_local=True) returns a
\* file of the directory whose version no other file's version exceeds,
\* component by component as integers, and the version string of its name.
C4_LocalLatestIsNumericMax ==
    (/\ source = "drugbank"
     /\ FromLocalCall
     /\ DOMAIN call.before # {}
     /\ \A f \in DOMAIN call.before :
            f.stem = "drugbank" /\ f.ext = "csv" /\ DottedNumeric(f.version)) =>
        /\ call.state = "Done"
        /\ Len(call.paths) = 1
        /\ call.paths[1] \in DOMAIN call.before
        /\ call.version = call.paths[1].version
        /\ \A g \in DOMAIN call.before :
              ~list_lt(formatted_version(call.paths[1].version),
                       formatted_version(g.version))

C4_Witness ==
    /\ FromLocalCall
    /\ call.state = "Done"
    /\ DOMAIN call.before =
          {File("drugbank", <<"1", "2">>, "csv"), File("drugbank", <<"2">>, "csv")}
    /\ call.paths = <<File("drugbank", <<"1", "2">>, "csv")>>
    /\ call.version = <<"1", "2">>

\* C5: under the default policy, when the file named for the resolved remote
\* version is in the data directory (Guide to Pharmacology: both member
\* files), get_latest returns that location and the remote version and
\* starts no download.
C5_CacheHitNoDownload ==
    /\ (/\ source = "drugbank"
        /\ DefaultCall
        /\ Resolved.exc = "none"
        /\ exists(call.before, File("drugbank", Resolved.version, "csv"))) =>
           /\ call.state = "Done"
           /\ call.paths = <<File("drugbank", Resolved.version, "csv")>>
           /\ call.version = Resolved.version
           /\ Downloads = {}
           /\ data_dir = call.before
    /\ (/\ source = "guidetopharmacology"
        /\ DefaultCall
        /\ Resolved.exc = "none"
        /\ exists(call.before, Ligands(Resolved.version))
        /\ exists(call.before, Mapping(Resolved.version))) =>
           /\ call.state = "Done"
           /\ call.paths = <<Ligands(Resolved.version), Mapping(Resolved.version)>>
           /\ call.version = Resolved.version
           /\ Downloads = {}
           /\ data_dir = call.before

C5_Witness ==
    /\ source = "guidetopharmacology"
    /\ DefaultCall
    /\ call.state = "Done"
    /\ Downloads = {}
    /\ exists(call.before, Ligands(call.version))
    /\ exists(call.before, Mapping(call.version))

\* exactly one member file of version v is in directory dir
PartialGroup(dir, v) == exists(dir, Ligands(v)) # exists(dir, Mapping(v))

\* C6: for Guide to Pharmacology under the default policy, when exactly one
\* of the two member files of the resolved remote version is present,
\* get_latest does not return the cached file: it starts the download of
\* the group with the ligands file and goes on to the mapping file when
\* that transfer succeeds, it fails only when a transfer fails, and when it
\* returns both members are fresh downloads.
C6_PartialGroupRefetched ==
    (/\ source = "guidetopharmacology"
     /\ DefaultCall
     /\ Resolved.exc = "none"
     /\ PartialGroup(call.before, Resolved.version)) =>
        /\ Len(call.events) >= 2
        /\ call.events[2] = Ev("download", Ligands(Resolved.version))
        /\ call.net[1] = "ok" =>
              /\ Len(call.events) = 3
              /\ call.events[3] = Ev("download", Mapping(Resolved.version))
        /\ call.state = "Failed" => \E i \in 1..Len(call.net) : call.net[i] # "ok"
        /\ call.state = "Done" =>
              /\ call.net = <<"ok", "ok">>
              /\ call.paths = <<Ligands(Resolved.version),
                                Mapping(Resolved.version)>>
              /\ data_dir[Ligands(Resolved.version)] = "dl"
              /\ data_dir[Mapping(Resolved.version)] = "dl"

C6_Witness ==
    /\ source = "guidetopharmacology"
    /\ DefaultCall
    /\ call.state = "Done"
    /\ PartialGroup(call.before, call.version)
    /\ exists(call.before, Mapping(call.version))
    /\ Cardinality(Downloads) = 2

\* the response the call read is received but yields no version: malformed
\* JSON, an empty release list, a missing key, an unreadable date, a home
\* page without a readable release line
Malformed ==
    CASE source = "drugbank" ->
            call.resp.kind \in {"bad_json", "empty_list", "no_version", "no_url"}
      [] source = "rxnorm" ->
            call.resp.kind \in {"bad_json", "no_version", "bad_date"}
      [] source = "guidetopharmacology" ->
            /\ call.resp.kind = "ok"
            /\ \A i \in 1..Len(call.resp.page) :
                  ~(/\ call.resp.page[i].marker
                    /\ pattern_match("\\d{4}\\.\\d", call.resp.page[i].text))

\* C7: when the remote-version strategy of DrugBank, RxNorm or Guide to
\* Pharmacology receives a malformed response, get_latest under the default
\* or the force-refresh policy fails with RemoteDataError, starts no
\* download and returns no cached file.
C7_MalformedResponseIsRemoteDataError ==
    (call.state # "Idle" /\ ~call.from_local /\ Malformed) =>
        /\ call.state = "Failed"
        /\ call.exc = "RemoteDataError"
        /\ call.paths = <<>>
        /\ Downloads = {}
        /\ data_dir = call.before

\* the member files of version v present in directory dir
Members(dir, v) == {f \in {Ligands(v), Mapping(v)} : exists(dir, f)}

\* C8: when a transfer fails during Guide to Pharmacology's get_latest, the
\* member files present for the resolved version afterwards are the full
\* group or the ones present before the call.
C8_NoPartialGroupAfterFailure ==
    (/\ source = "guidetopharmacology"
     /\ call.state = "Failed"
     /\ Downloads # {}) =>
        \/ Members(data_dir, Resolved.version)
              = {Ligands(Resolved.version), Mapping(Resolved.version)}
        \/ Members(data_dir, Resolved.version)
              = Members(call.before, Resolved.version)

\* C9: whenever Guide to Pharmacology's get_latest returns, in a data
\* directory that only get_latest calls have written to, the two paths
\* returned are of one version, the version returned.
C9_GroupOfOneVersion ==
    (/\ source = "guidetopharmacology"
     /\ call.state = "Done"
     /\ \A f \in DOMAIN data_dir : data_dir[f] # "ext") =>
        /\ Len(call.paths) = 2
        /\ call.paths[1].version = call.version
        /\ call.paths[2].version = call.version

\* C10: after a get_latest call that failed in a download, the destination
\* of that download is absent as before or holds the content it held before.
C10_FailedDownloadLeavesDestination ==
    (call.state = "Failed" /\ Downloads # {}) =>
        LET f == call.events[Len(call.events)].file
        IN  \/ ~exists(data_dir, f) /\ ~exists(call.before, f)
            \/ /\ exists(data_dir, f) /\ exists(call.before, f)
               /\ data_dir[f] = call.before[f]

\* C11: when the archive RxNorm receives has no member rrf/RXNCONSO.RRF, the
\* call fails with ProcessingError, the temporary file is discarded and the
\* destination is left as it was before the call.
C11_MissingMemberIsProcessingError ==
    (/\ source = "rxnorm"
     /\ call.state # "Idle"
     /\ Downloads # {}
     /\ call.blob = "no_member") =>
        /\ call.state = "Failed"
        /\ call.exc = "ProcessingError"
        /\ tmp = "absent"
        /\ data_dir = call.before

ForceRefreshCall == call.state # "Idle" /\ ~call.from_local /\ call.force_refresh

\* the files get_latest must deliver for version v of the source
Required(v) ==
    CASE source = "drugbank" -> <<File("drugbank", v, "csv")>>
      [] source = "guidetopharmacology" -> <<Ligands(v), Mapping(v)>>
      [] source = "rxnorm" -> <<File("rxnorm", v, "RRF")>>

\* the files whose download the call started, in order
Started == [i \in 1..Cardinality(Downloads) |-> call.events[i + Cardinality(Remotes)].file]

\* C12: under force_refresh, DrugBank's and Guide to Pharmacology's
\* get_latest asks the remote for the version first; once the version is
\* resolved it starts the download of the first required file whether or
\* not the files are cached, goes on to the next required file when the
\* transfer before it succeeded, and returns only after downloading every
\* required file in this call.
C12_ForceRefreshAlwaysDownloads ==
    (source \in {"drugbank", "guidetopharmacology"} /\ ForceRefreshCall) =>
        /\ Cardinality(Remotes) = 1 /\ call.events[1].op = "remote"
        /\ Resolved.exc = "none" =>
              /\ Len(Started) >= 1
              /\ \A i \in 1..Len(Started) : Started[i] = Required(Resolved.version)[i]
              /\ \A i \in 1..(Len(Started) - 1) : call.net[i] = "ok"
              /\ (call.net[Len(Started)] = "ok" /\ call.exc = "none") =>
                    Len(Started) = Len(Required(Resolved.version))
        /\ call.state = "Done" =>
              /\ Started = Required(Resolved.version)
              /\ call.paths = Required(Resolved.version)
              /\ \A i \in 1..Len(call.paths) : data_dir[call.paths[i]] = "dl"

C12_Witness ==
    /\ source = "guidetopharmacology"
    /\ ForceRefreshCall
    /\ call.state = "Done"
    /\ \A i \in 1..2 : exists(call.before, Required(call.version)[i])
    /\ Len(Started) = 2

\* C13 as stated: across a get_latest call under any policy, every file of
\* the data directory stays present with the content it had.
C13_CachedAssetNeverChanges ==
    (call.state # "Idle") =>
        \A f \in DOMAIN call.before :
            exists(data_dir, f) /\ data_dir[f] = call.before[f]

\* C13 (amended): across a get_latest call under any policy, every file of
\* the data directory stays present, and every file that is not the
\* destination of a download the call started keeps the content it had.
C13_OnlyDestinationsChange ==
    (call.state # "Idle") =>
        \A f \in DOMAIN call.before :
            /\ exists(data_dir, f)
            /\ (\A i \in 1..Len(Started) : Started[i] # f) =>
                  data_dir[f] = call.before[f]

C13_Witness ==
    /\ source = "drugbank"
    /\ ForceRefreshCall
    /\ call.state = "Done"
    /\ \E f, g \in DOMAIN call.before :
          /\ f = Started[1] /\ call.before[f] = "ext" /\ data_dir[f] = "dl"
          /\ g # f /\ data_dir[g] = call.before[g]

\* C14: within one get_latest call the remote version is requested at most
\* once, a download is started at most once per required file, and the
\* first failure (of the version request, of a transfer or of the
\* post-processing) ends the call in failure with no later request or
\* download.
C14_NoImplicitRetries ==
    (call.state # "Idle") =>
        /\ Cardinality(Remotes) <= 1
        /\ \A i, j \in 1..Len(Started) : Started[i] = Started[j] => i = j
        /\ (Remotes # {} /\ Resolved.exc # "none") =>
              /\ call.state = "Failed" /\ call.exc = Resolved.exc
              /\ Downloads = {}
        /\ \A i \in 1..Len(Started) :
              call.net[i] # "ok" =>
                  /\ i = Len(Started)
                  /\ call.state = "Failed"
                  /\ call.exc \in {"HTTPError", "ConnectionError"}
        /\ (Started # <<>> /\ call.blob \in {"no_member", "corrupt"}) =>
              call.state = "Failed"

C14_Witness ==
    /\ source = "guidetopharmacology"
    /\ call.state = "Failed"
    /\ Len(Started) = 1
    /\ call.net = <<"interrupted">>

\* a file of DrugBank's glob whose version is well formed
WellFormed(dir) ==
    {f \in glob(dir, "drugbank", "csv") : DottedNumeric(f.version)}

\* C15: DrugBank's from_local scan skips a file that matches the glob but
\* whose version cannot be parsed: it returns a well-formed file whenever
\* one is present and fails with FileNotFoundError only when none is.
C15_MalformedNamesSkipped ==
    (source = "drugbank" /\ FromLocalCall) =>
        IF WellFormed(call.before) # {}
        THEN /\ call.state = "Done"
             /\ call.paths[1] \in WellFormed(call.before)
        ELSE call.state = "Failed" /\ call.exc = "FileNotFoundError"

\* file f is in directory dir and every other DrugBank file there has a
\* well-formed version numerically below f's
GreatestCached(dir, f) ==
    /\ exists(dir, f)
    /\ \A g \in glob(dir, "drugbank", "csv") \ {f} :
          /\ DottedNumeric(g.version) /\ DottedNumeric(f.version)
          /\ list_lt(formatted_version(g.version), formatted_version(f.version))

\* C16: when DrugBank's get_latest has returned (p, v) from the remote path
\* (default or force_refresh) and v is the greatest cached version, the
\* next call, get_latest(from_local=True) with the cache unchanged in
\* between, returns the same (p, v), whatever version string the remote
\* gave.
C16_RoundTrip ==
    (/\ source = "drugbank"
     /\ FromLocalCall
     /\ call.prev.ok
     /\ GreatestCached(call.before, call.prev.paths[1])) =>
        /\ call.state = "Done"
        /\ call.paths = call.prev.paths
        /\ call.version = call.prev.version

\* the call got as far as the download step: the remote version was
\* resolved and the cached file, if any, was not returned
ReachedDownloadStep ==
    /\ call.state # "Idle" /\ ~call.from_local
    /\ Remotes # {} /\ Resolved.exc = "none"
    /\ \/ call.force_refresh
       \/ \E i \in 1..Len(Required(Resolved.version)) :
             ~exists(call.before, Required(Resolved.version)[i])

\* C17: when UMLS_API_KEY is not set, an RxNorm call that reaches the
\* download step fails with RemoteDataError, starts no download, and leaves
\* the data directory and the temporary path as they were.
C17_NoKeyNoDownload ==
    (source = "rxnorm" /\ ~UMLS_API_KEY /\ ReachedDownloadStep) =>
        /\ call.state = "Failed"
        /\ call.exc = "RemoteDataError"
        /\ Downloads = {}
        /\ data_dir = call.before
        /\ tmp = call.tmp_before

C17_Witness ==
    /\ source = "rxnorm"
    /\ ~UMLS_API_KEY
    /\ ReachedDownloadStep
    /\ call.force_refresh
    /\ exists(call.before, Required(Resolved.version)[1])
    /\ call.exc = "RemoteDataError"

\* C18: whenever get_latest returns, under any policy, it returns at least
\* one location and every location it returns is a file of the data
\* directory at that moment; after the download path these are the
\* required files of the resolved version, all in place.
C18_ReturnedFilesExist ==
    (call.state = "Done") =>
        /\ call.paths # <<>>
        /\ \A i \in 1..Len(call.paths) : exists(data_dir, call.paths[i])
        /\ Downloads # {} =>
              /\ call.paths = Required(Resolved.version)
              /\ \A i \in 1..Len(call.paths) : data_dir[call.paths[i]] = "dl"

C18_Witness ==
    /\ source = "guidetopharmacology"
    /\ DefaultCall
    /\ call.state = "Done"
    /\ Len(Started) = 2
    /\ call.before = EmptyDir
    /\ exists(data_dir, call.paths[1]) /\ exists(data_dir, call.paths[2])

\* C19: when the call before was a default get_latest that returned version
\* v, the data directory was not changed from outside in between, and the
\* remote still answers v, a default get_latest returns the same locations
\* and version, starts no download and leaves the data directory as it is.
C19_DefaultIdempotent ==
    (/\ DefaultCall
     /\ call.prev.ok /\ ~call.prev.force_refresh
     /\ Remotes # {} /\ Resolved.exc = "none"
     /\ Resolved.version = call.prev.version) =>
        /\ call.state = "Done"
        /\ call.paths = call.prev.paths
        /\ call.version = call.prev.version
        /\ Downloads = {}
        /\ data_dir = call.before

C19_Witness ==
    /\ source = "guidetopharmacology"
    /\ DefaultCall
    /\ call.prev.ok /\ ~call.prev.force_refresh /\ call.prev.downloaded
    /\ call.state = "Done"
    /\ call.version = call.prev.version
    /\ Downloads = {}

\* C20: when DrugBank's or Guide to Pharmacology's get_latest, under the
\* default policy or force_refresh, has resolved the remote version, what it
\* returns is that version and the files named for it, and when one of
\* those files is missing it starts their download, whatever other
\* versions, greater ones included, the data directory holds.
C20_RemoteVersionDecides ==
    (/\ source \in {"drugbank", "guidetopharmacology"}
     /\ call.state # "Idle" /\ ~call.from_local
     /\ Remotes # {} /\ Resolved.exc = "none") =>
        /\ call.state = "Done" =>
              /\ call.version = Resolved.version
              /\ call.paths = Required(Resolved.version)
        /\ (\E i \in 1..Len(Required(Resolved.version)) :
               ~exists(call.before, Required(Resolved.version)[i])) =>
              /\ Started # <<>>
              /\ Started[1] = Required(Resolved.version)[1]

C20_Witness ==
    /\ source = "drugbank"
    /\ DefaultCall
    /\ call.state = "Done"
    /\ call.version = <<"2">>
    /\ exists(call.before, File("drugbank", <<"1", "2">>, "csv"))
    /\ ~exists(call.before, File("drugbank", <<"2">>, "csv"))
    /\ Started = <<File("drugbank", <<"2">>, "csv")>>

====
